---- MODULE Spec2Model ----
(***************************************************************************)
(* fabric-aws-lambda, tasks.py: the task lifecycle (BaseTask.run), the     *)
(* option mappings and command composition of the six concrete tasks, and  *)
(* what each task hands to fabric's local().                               *)
(*                                                                         *)
(* Text is modelled by TLA+ strings and joined with \o.  Text that the     *)
(* program takes apart (JSON, base64) is a sequence of one-character       *)
(* strings.  A path is looked up in PathTable, which gives its components. *)
(***************************************************************************)
EXTENDS Integers, Sequences, FiniteSets, TLC

VARIABLES
    cls,        \* class of the task instance, "" before construction
    attrs,      \* instance attributes other than self.options
    options,    \* self.options
    pc,         \* position of the control flow
    args,       \* the positional arguments of the current run
    calls,      \* hook events of the current run: call / return / raise
    shell,      \* what local() was asked to execute in the current run
    shell_env,  \* fabric's env.shell_env (environment overrides for local())
    libdir,     \* the library directory on disk: absent / empty / nonempty
    files,      \* archive files on disk: path -> trees archived into it
    result,     \* text captured by local(..., capture=True)
    out,        \* what the task printed in the current run
    err,        \* the exception that left __init__ or run, "" when none
    runs,       \* number of run() calls made on the instance
    ctor        \* the arguments the constructor was called with

vars == <<cls, attrs, options, pc, args, calls, shell, shell_env, libdir,
          files, result, out, err, runs, ctor>>

\* Number of run() calls made on one instance.
MaxRuns == 2

\* Python's None.
None == "None"

\* An empty dict.
EmptyDict == [k \in {} |-> ""]

\* d[k] = v on a dict.
SetItem(d, k, v) == [x \in DOMAIN d \cup {k} |-> IF x = k THEN v ELSE d[x]]

-----------------------------------------------------------------------------
(* Paths: os.path.realpath, the working directory of local(). *)

\* Directory the process runs in (where fab is started).
ProjectDir == <<"project">>

\* The components of every path text the model uses.
PathTable ==
    [p \in {"lambda_function.zip", "/build/out.zip", "exclude.lst", "./lib", ""} |->
        CASE p = "lambda_function.zip" -> [abs |-> FALSE, parts |-> <<"lambda_function.zip">>]
          [] p = "/build/out.zip"      -> [abs |-> TRUE,  parts |-> <<"build", "out.zip">>]
          [] p = "exclude.lst"         -> [abs |-> FALSE, parts |-> <<"exclude.lst">>]
          [] p = "./lib"               -> [abs |-> FALSE, parts |-> <<".", "lib">>]
          [] p = ""                    -> [abs |-> FALSE, parts |-> <<>>]]

RECURSIVE DropDots(_)
DropDots(parts) ==
    IF parts = <<>> THEN <<>>
    ELSE IF Head(parts) = "." THEN DropDots(Tail(parts))
    ELSE <<Head(parts)>> \o DropDots(Tail(parts))

\* The absolute components of path text p seen from directory dir.
Resolve(dir, p) ==
    IF PathTable[p].abs THEN DropDots(PathTable[p].parts)
    ELSE DropDots(dir \o PathTable[p].parts)

RECURSIVE RenderPath(_)
RenderPath(parts) ==
    IF parts = <<>> THEN "" ELSE "/" \o Head(parts) \o RenderPath(Tail(parts))

\* os.path.realpath(p), evaluated in the process directory.
realpath(p) == RenderPath(Resolve(ProjectDir, p))

\* The directory local() runs a command in: "cd <lcwd> && <command>" when lcd
\* is in effect, the process directory otherwise.
WorkDir(lcwd) == Resolve(ProjectDir, lcwd)

-----------------------------------------------------------------------------
(* Command composition: join the fragments, then format with the options. *)

Lit(s) == [ph |-> FALSE, s |-> s]
Ph(name) == [ph |-> TRUE, s |-> name]

\* ''.join(command): the fragments with nothing between them.
RECURSIVE join_NoSpace(_)
join_NoSpace(command) ==
    IF command = <<>> THEN <<>> ELSE Head(command) \o join_NoSpace(Tail(command))

\* ' '.join(command): the fragments with one space between neighbours.
RECURSIVE join(_)
join(command) ==
    IF command = <<>> THEN <<>>
    ELSE IF Len(command) = 1 THEN Head(command)
    ELSE Head(command) \o <<Lit(" ")>> \o join(Tail(command))

\* str(value) for the decimal digits (timeout is the one numeric option).
IntStr(n) ==
    CASE n = 0 -> "0" [] n = 1 -> "1" [] n = 2 -> "2" [] n = 3 -> "3" [] n = 4 -> "4"
      [] n = 5 -> "5" [] n = 6 -> "6" [] n = 7 -> "7" [] n = 8 -> "8" [] n = 9 -> "9"

\* What format() writes for option name: str() of its value.
FieldText(name, opts) == IF name = "timeout" THEN IntStr(opts[name]) ELSE opts[name]

RECURSIVE Substitute(_, _)
Substitute(pieces, opts) ==
    IF pieces = <<>> THEN ""
    ELSE (IF Head(pieces).ph THEN FieldText(Head(pieces).s, opts) ELSE Head(pieces).s)
         \o Substitute(Tail(pieces), opts)

\* The placeholder names of a joined template.
Placeholders(pieces) == {pieces[i].s : i \in {j \in 1..Len(pieces) : pieces[j].ph}}

\* str.format with the options as keywords: KeyError when a placeholder's name is not a key.
format(pieces, opts) ==
    IF Placeholders(pieces) \subseteq DOMAIN opts
    THEN [ok |-> TRUE, text |-> Substitute(pieces, opts)]
    ELSE [ok |-> FALSE, text |-> "KeyError"]

\* The composed command: the joined fragments, formatted.
Compose(command, opts) == format(join(command), opts)

-----------------------------------------------------------------------------
(* The command templates of the tasks, as the lists of fragments they are. *)

\* SetupTask.install_python_modules
SetupCommand ==
    << <<Lit("pip install --upgrade")>>,
       <<Lit("-r "), Ph("requirements")>>,
       <<Lit("-t "), Ph("lib_path")>> >>

\* InvokeTask.invoke
InvokeCommand ==
    << <<Lit("python-lambda-local")>>,
       <<Lit("-t "), Ph("timeout")>>,
       <<Lit("-l "), Ph("lib_path")>>,
       <<Lit("-f "), Ph("lambda_handler")>>,
       <<Ph("lambda_file")>>,
       <<Ph("event_file")>> >>

\* MakeZipTask.remove_zip_file: one fragment, one positional field.
RemoveCommand == << <<Lit("rm -rf "), Ph("0")>> >>

\* MakeZipTask.makezip: one fragment.
ZipCommand ==
    << <<Lit("zip -r9 "), Ph("zip_file"), Lit(" * -x@"), Ph("exclude_file")>> >>

\* The fragment appended when the options hold a qualifier.
QualifierFragment(opts) ==
    IF "qualifier" \in DOMAIN opts THEN << <<Lit("--qualifier "), Ph("qualifier")>> >> ELSE <<>>

\* AWSLambdaGetConfigTask.get_function_config
GetConfigCommand(opts) ==
    << <<Lit("aws lambda get-function-configuration")>>,
       <<Lit("--function-name "), Ph("function_name")>> >>
    \o QualifierFragment(opts)

\* AWSLambdaInvokeTask.invoke
AWSInvokeCommand(opts) ==
    << <<Lit("aws lambda invoke")>>,
       <<Lit("--function-name "), Ph("function_name")>>,
       <<Lit("--invocation-type "), Ph("invocation_type")>>,
       <<Lit("--log-type "), Ph("log_type")>>,
       <<Lit("--payload "), Ph("payload")>> >>
    \o QualifierFragment(opts)
    \o << <<Ph("outfile")>> >>

\* AWSLambdaUpdateCodeTask.run_main
UpdateCodeCommand ==
    << <<Lit("aws lambda update-function-code")>>,
       <<Lit("--function-name "), Ph("function_name")>>,
       <<Lit("--zip-file "), Ph("zip_file")>> >>

-----------------------------------------------------------------------------
(* JSON and base64, on sequences of one-character strings. *)

Tok(t) == [t |-> t, v |-> <<>>]
Str(chars) == [t |-> "str", v |-> chars]

LogResultKey == <<"L", "o", "g", "R", "e", "s", "u", "l", "t">>
StatusCodeKey == <<"S", "t", "a", "t", "u", "s", "C", "o", "d", "e">>

\* The members of an object after its "{": string ":" string, then "," or "}".
RECURSIVE Members(_, _)
Members(toks, acc) ==
    IF Len(toks) >= 4 /\ toks[1].t = "str" /\ toks[2].t = ":" /\ toks[3].t = "str"
    THEN LET pairs == Append(acc, <<toks[1].v, toks[3].v>>)
         IN  IF toks[4].t = "}" /\ Len(toks) = 4
             THEN [ok |-> TRUE, kind |-> "dict", items |-> pairs]
             ELSE IF toks[4].t = ","
             THEN Members(SubSeq(toks, 5, Len(toks)), pairs)
             ELSE [ok |-> FALSE, kind |-> "ValueError", items |-> <<>>]
    ELSE [ok |-> FALSE, kind |-> "ValueError", items |-> <<>>]

\* json.loads on the tokens of a text: an object of string members, an empty
\* list, or ValueError.
json_loads(toks) ==
    IF Len(toks) = 2 /\ toks[1].t = "[" /\ toks[2].t = "]"
    THEN [ok |-> TRUE, kind |-> "list", items |-> <<>>]
    ELSE IF Len(toks) = 2 /\ toks[1].t = "{" /\ toks[2].t = "}"
    THEN [ok |-> TRUE, kind |-> "dict", items |-> <<>>]
    ELSE IF Len(toks) > 2 /\ toks[1].t = "{"
    THEN Members(SubSeq(toks, 2, Len(toks)), <<>>)
    ELSE [ok |-> FALSE, kind |-> "ValueError", items |-> <<>>]

\* dict.get(key, default): the last member with that key wins.
get(items, key, default) ==
    LET at == {i \in 1..Len(items) : items[i][1] = key}
    IN  IF at = {} THEN default
        ELSE items[CHOOSE i \in at : \A j \in at : j <= i][2]

B64Alphabet ==
    <<"A", "B", "C", "D", "E", "F", "G", "H", "I", "J", "K", "L", "M",
      "N", "O", "P", "Q", "R", "S", "T", "U", "V", "W", "X", "Y", "Z",
      "a", "b", "c", "d", "e", "f", "g", "h", "i", "j", "k", "l", "m",
      "n", "o", "p", "q", "r", "s", "t", "u", "v", "w", "x", "y", "z",
      "0", "1", "2", "3", "4", "5", "6", "7", "8", "9", "+", "/">>

B64Val(c) == (CHOOSE i \in 1..Len(B64Alphabet) : B64Alphabet[i] = c) - 1

\* A decoder that takes the padding for data: three bytes from every group.
DecodeQuad_NoPadding(q) ==
    LET val(c) == IF c = "=" THEN 0 ELSE B64Val(c)
        n == val(q[1]) * 262144 + val(q[2]) * 4096 + val(q[3]) * 64 + val(q[4])
    IN  <<n \div 65536, (n \div 256) % 256, n % 256>>

\* The bytes of one group of four characters.
DecodeQuad(q) ==
    IF q[3] = "=" /\ q[4] = "="
    THEN <<(B64Val(q[1]) * 4 + B64Val(q[2]) \div 16) % 256>>
    ELSE IF q[4] = "="
    THEN LET n == B64Val(q[1]) * 1024 + B64Val(q[2]) * 16 + B64Val(q[3]) \div 4
         IN  <<(n \div 256) % 256, n % 256>>
    ELSE LET n == B64Val(q[1]) * 262144 + B64Val(q[2]) * 4096 + B64Val(q[3]) * 64 + B64Val(q[4])
         IN  <<n \div 65536, (n \div 256) % 256, n % 256>>

RECURSIVE DecodeQuads(_)
DecodeQuads(chars) ==
    IF chars = <<>> THEN <<>>
    ELSE DecodeQuad(SubSeq(chars, 1, 4)) \o DecodeQuads(SubSeq(chars, 5, Len(chars)))

\* base64.b64decode: the bytes, or an error on a length that is no multiple of four.
b64decode(chars) ==
    IF Len(chars) % 4 # 0
    THEN [ok |-> FALSE, bytes |-> <<>>]
    ELSE [ok |-> TRUE, bytes |-> DecodeQuads(chars)]

-----------------------------------------------------------------------------
(* Inputs. *)

\* timeout=3, the default of InvokeTask.__init__.
DefaultTimeout == 3

\* function_name as handed to the constructors of the remote tasks.
FunctionNames == {None, "my-function"}

\* qualifier as handed to the constructors: left out, empty, or a version.
Qualifiers == {None, "", "PROD"}

\* zip_file as handed to MakeZipTask: the default (relative) or an absolute path.
ZipFiles == {"lambda_function.zip", "/build/out.zip"}

\* The positional arguments of run: none, an explicit None, or an override.
ArgChoices == {<<>>, <<None>>, <<"alt">>}

\* Texts the cloud CLI may leave on stdout, as JSON tokens.
HelloB64 == <<"a", "G", "V", "s", "b", "G", "8", "=">>
HiB64 == <<"a", "G", "k", "=">>
HelloBytes == <<104, 101, 108, 108, 111>>
HiBytes == <<104, 105>>

TextHello == <<Tok("{"), Str(LogResultKey), Tok(":"), Str(HelloB64), Tok("}")>>
TextStatusAndHi ==
    <<Tok("{"), Str(StatusCodeKey), Tok(":"), Str(<<"2", "0", "0">>), Tok(","),
      Str(LogResultKey), Tok(":"), Str(HiB64), Tok("}")>>
TextEmptyObject == <<Tok("{"), Tok("}")>>
TextStatusOnly == <<Tok("{"), Str(StatusCodeKey), Tok(":"), Str(<<"2", "0", "0">>), Tok("}")>>
TextList == <<Tok("["), Tok("]")>>
TextNotJson == <<Tok("word")>>
TextTruncated == <<Tok("{"), Str(LogResultKey), Tok(":")>>
TextBadPadding == <<Tok("{"), Str(LogResultKey), Tok(":"), Str(<<"a", "G", "k">>), Tok("}")>>

CapturedTexts ==
    {TextHello, TextStatusAndHi, TextEmptyObject, TextStatusOnly, TextList,
     TextNotJson, TextTruncated, TextBadPadding}

-----------------------------------------------------------------------------
(* The lifecycle: BaseTask.run. *)

Ev(e, h, a) == [ev |-> e, hook |-> h, args |-> a]

\* The hook run calls first.
FirstHook == "pre_task"

\* run with post_task and run_main in each other's place.
NextHook_Swapped(h) ==
    CASE h = "pre_task" -> "post_task"
      [] h = "post_task" -> "run_main"
      [] h = "run_main" -> "done"

\* The statement of run that follows hook h.
NextHook(h) ==
    CASE h = "pre_task" -> "run_main"
      [] h = "run_main" -> "post_task"
      [] h = "post_task" -> "done"

\* run catching what a hook raises and going on.
OnRaise_Swallow(h) == NextHook(h)

\* Where control goes when hook h raises: run catches nothing.
OnRaise(h) == "failed"

\* Hook h returns: run goes on to its next statement.
Return(h) ==
    /\ pc' = NextHook(h)
    /\ calls' = calls \o <<Ev("return", h, args)>>
                \o (IF NextHook(h) = "done" THEN <<>> ELSE <<Ev("call", NextHook(h), args)>>)

\* Hook h raises e.
Raise(h, e) ==
    /\ pc' = OnRaise(h)
    /\ calls' = Append(calls, Ev("raise", h, args))
    /\ err' = e

\* The value the optional parameter of run_main is bound to.
Param == IF args = <<>> THEN None ELSE args[1]

\* fabric's local(): the command is run in the working directory, under the
\* environment overrides in effect, and exits with zero (ok) or not.
Executed(text, lcwd, capture, ok) ==
    [cmd |-> text, cwd |-> RenderPath(WorkDir(lcwd)), env |-> shell_env,
     capture |-> capture, ok |-> ok]

\* The assignment without the test for None.
Override_Always(opts, key, x) == SetItem(opts, key, x)

\* if x is not None: options[key] = x
Override(opts, key, x) == IF x # None THEN SetItem(opts, key, x) ELSE opts

\* "if qualifier is not None" in place of "if qualifier".
WithQualifier_NotNone(opts, qualifier) ==
    IF qualifier # None THEN SetItem(opts, "qualifier", qualifier) ELSE opts

\* if qualifier: options['qualifier'] = qualifier
WithQualifier(opts, qualifier) ==
    IF qualifier # None /\ qualifier # "" THEN SetItem(opts, "qualifier", qualifier) ELSE opts

\* A constructor without the check of function_name.
FunctionNameMissing_Never(function_name) == FALSE

\* if function_name is None: raise
FunctionNameMissing(function_name) == function_name = None

Init ==
    /\ cls = ""
    /\ attrs = EmptyDict
    /\ options = EmptyDict
    /\ pc = "new"
    /\ args = <<>>
    /\ calls = <<>>
    /\ shell = <<>>
    /\ shell_env = EmptyDict
    /\ libdir \in {"absent", "empty", "nonempty"}
    /\ files = EmptyDict
    /\ result = <<>>
    /\ out = <<>>
    /\ err = ""
    /\ runs = 0
    /\ ctor = EmptyDict

\* A subclass of BaseTask that overrides the hooks.
Subclass_init ==
    /\ pc = "new"
    /\ cls' = "Subclass"
    /\ ctor' = EmptyDict
    /\ pc' = "ready"
    /\ UNCHANGED <<attrs, options, args, calls, shell, shell_env, libdir, files, result, out, err, runs>>

SetupTask_init ==
    /\ pc = "new"
    /\ cls' = "SetupTask"
    /\ ctor' = EmptyDict
    /\ attrs' = [requirements |-> "requirements.txt", lib_path |-> "./lib",
                 install_prefix |-> "./local", tempdir |-> "/tmp"]
    /\ pc' = "ready"
    /\ UNCHANGED <<options, args, calls, shell, shell_env, libdir, files, result, out, err, runs>>

InvokeTask_init ==
    /\ pc = "new"
    /\ cls' = "InvokeTask"
    /\ ctor' = [event_file |-> "event.json"]
    /\ options' = [lambda_handler |-> "lambda_handler", lambda_file |-> "lambda_function.py",
                   event_file |-> "event.json", lib_path |-> "./lib",
                   timeout |-> DefaultTimeout]
    /\ pc' = "ready"
    /\ UNCHANGED <<attrs, args, calls, shell, shell_env, libdir, files, result, out, err, runs>>

MakeZipTask_init ==
    /\ pc = "new"
    /\ \E zip_file \in ZipFiles :
         /\ attrs' = [zip_file |-> zip_file, exclude_file |-> realpath("exclude.lst"),
                      lib_path |-> "./lib"]
         /\ ctor' = [zip_file |-> zip_file]
    /\ cls' = "MakeZipTask"
    /\ pc' = "ready"
    /\ UNCHANGED <<options, args, calls, shell, shell_env, libdir, files, result, out, err, runs>>

\* The three remote constructors: the check of function_name comes first.
RemoteInit(name, opts, qualifier) ==
    /\ pc = "new"
    /\ ctor' = [function_name |-> opts.function_name, qualifier |-> qualifier]
    /\ IF FunctionNameMissing(opts.function_name)
       THEN /\ pc' = "init_failed"
            /\ err' = "Function Name Required"
            /\ UNCHANGED <<cls, options>>
       ELSE /\ pc' = "ready"
            /\ cls' = name
            /\ options' = WithQualifier(opts, qualifier)
            /\ err' = err
    /\ UNCHANGED <<attrs, args, calls, shell, shell_env, libdir, files, result, out, runs>>

AWSLambdaGetConfigTask_init ==
    /\ pc = "new"
    /\ \E function_name \in FunctionNames, qualifier \in Qualifiers :
        RemoteInit("AWSLambdaGetConfigTask", [function_name |-> function_name], qualifier)

AWSLambdaInvokeTask_init ==
    /\ pc = "new"
    /\ \E function_name \in FunctionNames, qualifier \in Qualifiers :
        RemoteInit("AWSLambdaInvokeTask",
                   [function_name |-> function_name, invocation_type |-> "RequestResponse",
                    log_type |-> "Tail", payload |-> "file://event.json",
                    outfile |-> "/tmp/outfile.txt"],
                   qualifier)

AWSLambdaUpdateCodeTask_init ==
    /\ pc = "new"
    /\ \E function_name \in FunctionNames :
        RemoteInit("AWSLambdaUpdateCodeTask",
                   [function_name |-> function_name, zip_file |-> "fileb://lambda_function.zip"],
                   None)

run ==
    /\ pc \in {"ready", "done", "failed"}
    /\ runs < MaxRuns
    /\ \E a \in ArgChoices : args' = a
    /\ runs' = runs + 1
    /\ pc' = FirstHook
    /\ calls' = <<Ev("call", FirstHook, args')>>
    /\ shell' = <<>>
    /\ result' = <<>>
    /\ out' = <<>>
    /\ err' = ""
    /\ UNCHANGED <<cls, attrs, options, shell_env, libdir, files, ctor>>

\* pre_task and post_task: no-ops, unless a subclass overrides them.
Hook(h) ==
    /\ pc = h
    /\ \E ok \in (IF cls = "Subclass" THEN BOOLEAN ELSE {TRUE}) :
         IF ok THEN Return(h) /\ err' = err ELSE Raise(h, "hook failed")
    /\ UNCHANGED <<cls, attrs, options, args, shell, shell_env, libdir, files, result, out, runs, ctor>>

pre_task ==
    /\ pc = "pre_task"
    /\ Hook("pre_task")

post_task ==
    /\ pc = "post_task"
    /\ Hook("post_task")

Subclass_run_main ==
    /\ cls = "Subclass"
    /\ Hook("run_main")

-----------------------------------------------------------------------------
(* The main phase of the concrete tasks. *)

\* local(text): nothing is executed when composing the text raised.
Local(c, lcwd, capture, ok) ==
    shell' = IF c.ok THEN Append(shell, Executed(c.text, lcwd, capture, ok)) ELSE shell

\* What the statement local(<composed>) raises: the KeyError of format, the
\* failure of a command that exits non-zero, or nothing.
LocalErr(c, ok) == IF ~c.ok THEN c.text ELSE IF ~ok THEN "command failed" ELSE ""

\* The method run_main of a class hands over to (run_main has no body of its
\* own in these classes).
MainEntry(c) ==
    CASE c = "SetupTask" -> "install_python_modules"
      [] c = "InvokeTask" -> "invoke"
      [] c = "MakeZipTask" -> "remove_zip_file"
      [] c = "AWSLambdaGetConfigTask" -> "get_function_config"
      [] c = "AWSLambdaInvokeTask" -> "aws_invoke"

\* run_main of SetupTask and MakeZipTask takes no argument: TypeError when run
\* was given one.
run_main ==
    /\ pc = "run_main"
    /\ cls \in {"SetupTask", "InvokeTask", "MakeZipTask", "AWSLambdaGetConfigTask",
                "AWSLambdaInvokeTask"}
    /\ IF cls \in {"SetupTask", "MakeZipTask"} /\ args # <<>>
       THEN Raise("run_main", "TypeError")
       ELSE pc' = MainEntry(cls) /\ UNCHANGED <<calls, err>>
    /\ UNCHANGED <<cls, attrs, options, args, shell, shell_env, libdir, files, result, out, runs, ctor>>

install_python_modules ==
    /\ pc = "install_python_modules"
    /\ \E ok \in BOOLEAN :
         LET c == Compose(SetupCommand,
                          [requirements |-> attrs.requirements, lib_path |-> attrs.lib_path])
             e == LocalErr(c, ok)
         IN  /\ Local(c, "", FALSE, ok)
             /\ IF e = "" THEN Return("run_main") /\ err' = err ELSE Raise("run_main", e)
    /\ UNCHANGED <<cls, attrs, options, args, shell_env, libdir, files, result, out, runs, ctor>>

\* InvokeTask.invoke up to the entry of the with block.
InvokeTask_invoke ==
    /\ pc = "invoke"
    /\ options' = Override(options, "event_file", Param)
    /\ shell_env' = SetItem(shell_env, "PYTHONPATH", options'["lib_path"])
    /\ pc' = "invoke_local"
    /\ UNCHANGED <<cls, attrs, args, calls, shell, libdir, files, result, out, err, runs, ctor>>

\* The body of the with block.
InvokeTask_local ==
    /\ pc = "invoke_local"
    /\ \E ok \in BOOLEAN :
         LET c == Compose(InvokeCommand, options)
         IN  /\ Local(c, "", FALSE, ok)
             /\ err' = LocalErr(c, ok)
    /\ pc' = "invoke_exit"
    /\ UNCHANGED <<cls, attrs, options, args, calls, shell_env, libdir, files, result, out, runs, ctor>>

\* An override that is taken back only when the body returned.
ShellEnvExit_OnSuccess(env, raised) ==
    IF raised THEN env ELSE [k \in DOMAIN env \ {"PYTHONPATH"} |-> env[k]]

\* Leaving the with block: the overrides it set are taken back, whether the
\* body returned or raised.
ShellEnvExit(env, raised) == [k \in DOMAIN env \ {"PYTHONPATH"} |-> env[k]]

InvokeTask_exit ==
    /\ pc = "invoke_exit"
    /\ shell_env' = ShellEnvExit(shell_env, err # "")
    /\ IF err = "" THEN Return("run_main") /\ err' = err ELSE Raise("run_main", err)
    /\ UNCHANGED <<cls, attrs, options, args, shell, libdir, files, result, out, runs, ctor>>

\* The file a command run in lcwd names by self.zip_file.
ZipTarget(lcwd) == RenderPath(Resolve(WorkDir(lcwd), attrs.zip_file))

\* zip adds a tree to the archive it is given, creating it when missing.
AddTree(fs, path, tree) ==
    SetItem(fs, path, (IF path \in DOMAIN fs THEN fs[path] ELSE {}) \cup {tree})

remove_zip_file ==
    /\ pc = "remove_zip_file"
    /\ \E ok \in BOOLEAN :
         LET c == Compose(RemoveCommand, ("0" :> attrs.zip_file))
             e == LocalErr(c, ok)
         IN  /\ Local(c, "", FALSE, ok)
             /\ IF e = ""
                THEN /\ files' = [f \in DOMAIN files \ {ZipTarget("")} |-> files[f]]
                     /\ pc' = "makezip_basepath"
                     /\ UNCHANGED <<calls, err>>
                ELSE Raise("run_main", e) /\ files' = files
    /\ UNCHANGED <<cls, attrs, options, args, shell_env, libdir, result, out, runs, ctor>>

\* MakeZipTask.makezip, run in lcwd, archiving tree.
makezip(lcwd, tree, ok) ==
    LET c == Compose(ZipCommand,
                     [zip_file |-> attrs.zip_file, exclude_file |-> attrs.exclude_file])
    IN  /\ Local(c, lcwd, FALSE, ok)
        /\ files' = IF LocalErr(c, ok) = "" THEN AddTree(files, ZipTarget(lcwd), tree) ELSE files

makezip_basepath ==
    /\ pc = "makezip_basepath"
    /\ \E ok \in BOOLEAN :
         /\ makezip("", "base", ok)
         /\ IF ok
            THEN pc' = "makezip_python_modules" /\ UNCHANGED <<calls, err>>
            ELSE Raise("run_main", "command failed")
    /\ UNCHANGED <<cls, attrs, options, args, shell_env, libdir, result, out, runs, ctor>>

\* The check of the library directory without the test for an empty one.
LibHasModules_ExistsOnly(dir) == dir # "absent"

\* not (not os.path.exists(lib_path) or not os.listdir(lib_path))
LibHasModules(dir) == dir # "absent" /\ dir # "empty"

makezip_python_modules ==
    /\ pc = "makezip_python_modules"
    /\ IF ~LibHasModules(libdir)
       THEN Return("run_main") /\ UNCHANGED <<shell, files, err>>
       ELSE \E ok \in BOOLEAN :
              /\ makezip(attrs.lib_path, "lib", ok)
              /\ IF ok THEN Return("run_main") /\ err' = err
                 ELSE Raise("run_main", "command failed")
    /\ UNCHANGED <<cls, attrs, options, args, shell_env, libdir, result, out, runs, ctor>>

get_function_config ==
    /\ pc = "get_function_config"
    /\ options' = Override(options, "function_name", Param)
    /\ \E ok \in BOOLEAN, text \in CapturedTexts :
         LET c == Compose(GetConfigCommand(options'), options')
             e == LocalErr(c, ok)
         IN  /\ Local(c, "", TRUE, ok)
             /\ IF e = ""
                THEN /\ result' = text
                     /\ out' = Append(out, [kind |-> "raw", text |-> text])
                     /\ Return("run_main")
                     /\ err' = err
                ELSE Raise("run_main", e) /\ UNCHANGED <<result, out>>
    /\ UNCHANGED <<cls, attrs, args, shell_env, libdir, files, runs, ctor>>

\* AWSLambdaInvokeTask.invoke up to the captured result.
AWSLambdaInvokeTask_invoke ==
    /\ pc = "aws_invoke"
    /\ options' = Override(options, "function_name", Param)
    /\ \E ok \in BOOLEAN, text \in CapturedTexts :
         LET c == Compose(AWSInvokeCommand(options'), options')
             e == LocalErr(c, ok)
         IN  /\ Local(c, "", TRUE, ok)
             /\ IF e = ""
                THEN /\ result' = text
                     /\ pc' = "print_log_result"
                     /\ UNCHANGED <<calls, err>>
                ELSE Raise("run_main", e) /\ result' = result
    /\ UNCHANGED <<cls, attrs, args, shell_env, libdir, files, out, runs, ctor>>

\* What print_log_result makes of the captured text: the decoded bytes, or
\* the exception of json.loads, of .get on a value that is no dict, or of
\* b64decode.
LogOutput(text) ==
    LET parsed == json_loads(text)
    IN  IF ~parsed.ok THEN [ok |-> FALSE, err |-> "ValueError", bytes |-> <<>>]
        ELSE IF parsed.kind # "dict"
        THEN [ok |-> FALSE, err |-> "AttributeError", bytes |-> <<>>]
        ELSE LET d == b64decode(get(parsed.items, LogResultKey, <<>>))
             IN  IF d.ok THEN [ok |-> TRUE, err |-> "", bytes |-> d.bytes]
                 ELSE [ok |-> FALSE, err |-> "binascii.Error", bytes |-> <<>>]

print_log_result ==
    /\ pc = "print_log_result"
    /\ LET log == LogOutput(result)
       IN  IF log.ok
           THEN /\ out' = Append(out, [kind |-> "log", bytes |-> log.bytes])
                /\ pc' = "print_result"
                /\ UNCHANGED <<calls, err>>
           ELSE Raise("run_main", log.err) /\ out' = out
    /\ UNCHANGED <<cls, attrs, options, args, shell, shell_env, libdir, files, result, runs, ctor>>

print_result ==
    /\ pc = "print_result"
    /\ out' = Append(out, [kind |-> "RESULT", file |-> options.outfile])
    /\ Return("run_main")
    /\ UNCHANGED <<cls, attrs, options, args, shell, shell_env, libdir, files, result, err, runs, ctor>>

AWSLambdaUpdateCodeTask_run_main ==
    /\ pc = "run_main"
    /\ cls = "AWSLambdaUpdateCodeTask"
    /\ options' = Override(options, "function_name", Param)
    /\ \E ok \in BOOLEAN, text \in {TextStatusOnly, TextNotJson} :
         LET c == Compose(UpdateCodeCommand, options')
             e == LocalErr(c, ok)
         IN  /\ Local(c, "", TRUE, ok)
             /\ IF e = ""
                THEN /\ result' = text
                     /\ out' = Append(out, [kind |-> "raw", text |-> text])
                     /\ Return("run_main")
                     /\ err' = err
                ELSE Raise("run_main", e) /\ UNCHANGED <<result, out>>
    /\ UNCHANGED <<cls, attrs, args, shell_env, libdir, files, runs, ctor>>

Next ==
    \/ Subclass_init
    \/ SetupTask_init
    \/ InvokeTask_init
    \/ MakeZipTask_init
    \/ AWSLambdaGetConfigTask_init
    \/ AWSLambdaInvokeTask_init
    \/ AWSLambdaUpdateCodeTask_init
    \/ run
    \/ pre_task
    \/ run_main
    \/ Subclass_run_main
    \/ install_python_modules
    \/ InvokeTask_invoke
    \/ InvokeTask_local
    \/ InvokeTask_exit
    \/ remove_zip_file
    \/ makezip_basepath
    \/ makezip_python_modules
    \/ get_function_config
    \/ AWSLambdaInvokeTask_invoke
    \/ print_log_result
    \/ print_result
    \/ AWSLambdaUpdateCodeTask_run_main
    \/ post_task

Spec == Init /\ [][Next]_vars

-----------------------------------------------------------------------------
(* Composition alone: one command template, composed with an option mapping
   that holds any part of the options its task builds, and handed to local. *)

TemplateNames ==
    {"install_python_modules", "invoke", "remove_zip_file", "makezip",
     "get_function_config", "aws_invoke", "update_function_code"}

\* The command list of each place that composes a command.
CommandOf(name, opts) ==
    CASE name = "install_python_modules" -> SetupCommand
      [] name = "invoke" -> InvokeCommand
      [] name = "remove_zip_file" -> RemoveCommand
      [] name = "makezip" -> ZipCommand
      [] name = "get_function_config" -> GetConfigCommand(opts)
      [] name = "aws_invoke" -> AWSInvokeCommand(opts)
      [] name = "update_function_code" -> UpdateCodeCommand

\* The options the task builds for each of them.
OptionsOf(name) ==
    CASE name = "install_python_modules" ->
            [requirements |-> "requirements.txt", lib_path |-> "./lib"]
      [] name = "invoke" ->
            [lambda_handler |-> "lambda_handler", lambda_file |-> "lambda_function.py",
             event_file |-> "event.json", lib_path |-> "./lib", timeout |-> DefaultTimeout]
      [] name = "remove_zip_file" -> ("0" :> "lambda_function.zip")
      [] name = "makezip" ->
            [zip_file |-> "lambda_function.zip", exclude_file |-> realpath("exclude.lst")]
      [] name = "get_function_config" ->
            [function_name |-> "my-function", qualifier |-> "PROD"]
      [] name = "aws_invoke" ->
            [function_name |-> "my-function", invocation_type |-> "RequestResponse",
             log_type |-> "Tail", payload |-> "file://event.json",
             outfile |-> "/tmp/outfile.txt", qualifier |-> "PROD"]
      [] name = "update_function_code" ->
            [function_name |-> "my-function", zip_file |-> "fileb://lambda_function.zip"]

InitCompose ==
    /\ cls = ""
    /\ \E name \in TemplateNames :
         /\ attrs = [template |-> name]
         /\ \E keys \in SUBSET DOMAIN OptionsOf(name) :
              options = [k \in keys |-> OptionsOf(name)[k]]
    /\ pc = "compose"
    /\ args = <<>>
    /\ calls = <<>>
    /\ shell = <<>>
    /\ shell_env = EmptyDict
    /\ libdir = "absent"
    /\ files = EmptyDict
    /\ result = <<>>
    /\ out = <<>>
    /\ err = ""
    /\ runs = 0
    /\ ctor = EmptyDict

\* local(<the composed command>): the argument is evaluated, then local is
\* called.
compose_and_run ==
    /\ pc = "compose"
    /\ \E ok \in BOOLEAN :
         LET c == Compose(CommandOf(attrs.template, options), options)
         IN  /\ Local(c, "", FALSE, ok)
             /\ err' = LocalErr(c, ok)
    /\ pc' = "composed"
    /\ UNCHANGED <<cls, attrs, options, args, calls, shell_env, libdir, files, result, out, runs, ctor>>

NextCompose == compose_and_run

SpecCompose == InitCompose /\ [][NextCompose]_vars

-----------------------------------------------------------------------------
(* Properties. *)

RemoteClasses == {"AWSLambdaGetConfigTask", "AWSLambdaInvokeTask", "AWSLambdaUpdateCodeTask"}

\* The hook events of a run in which no hook fails.
FullLifecycle(a) ==
    <<Ev("call", "pre_task", a), Ev("return", "pre_task", a),
      Ev("call", "run_main", a), Ev("return", "run_main", a),
      Ev("call", "post_task", a), Ev("return", "post_task", a)>>

Raised == \E i \in 1..Len(calls) : calls[i].ev = "raise"

\* C1: run calls pre_task, run_main, post_task in that order, each once and
\* each with the arguments of run, as long as no hook fails; a hook is called
\* only after the one before it has returned.  The events of a run are a
\* prefix of call/return pre_task, call/return run_main, call/return
\* post_task (up to the event of a failing hook), and a finished run has them all.
C1_LifecycleOrder ==
    /\ pc = "done" => calls = FullLifecycle(args)
    /\ ~Raised =>
         /\ Len(calls) <= 6
         /\ calls = SubSeq(FullLifecycle(args), 1, Len(calls))
    /\ Raised =>
         /\ Len(calls) <= 6
         /\ SubSeq(calls, 1, Len(calls) - 1) = SubSeq(FullLifecycle(args), 1, Len(calls) - 1)
         /\ calls[Len(calls)].hook = calls[Len(calls) - 1].hook
         /\ calls[Len(calls) - 1].ev = "call"

C1_Witness ==
    /\ cls = "AWSLambdaInvokeTask"
    /\ pc = "done"
    /\ args = <<"alt">>
    /\ Len(shell) = 1
    /\ calls = FullLifecycle(<<"alt">>)

\* C2: a failing hook ends the run and the failure reaches the caller: the
\* raise is the last event of the run, so after a failure of pre_task neither
\* run_main nor post_task is called and after a failure of run_main post_task
\* is not; no hook is called twice in a run, no command is issued twice, and
\* no command follows a command that failed.
C2_FailureAborts ==
    /\ \A i \in 1..Len(calls) : calls[i].ev = "raise" =>
         /\ i = Len(calls)
         /\ pc = "failed"
         /\ err # ""
    /\ pc = "failed" => Raised
    /\ \A h \in {"pre_task", "run_main", "post_task"} :
         Cardinality({i \in 1..Len(calls) : calls[i].ev = "call" /\ calls[i].hook = h}) <= 1
    /\ \A i \in 1..Len(shell) :
         /\ ~shell[i].ok => i = Len(shell) /\ pc \in {"failed", "invoke_exit"}
         /\ \A j \in 1..Len(shell) : i # j => <<shell[i].cmd, shell[i].cwd>> # <<shell[j].cmd, shell[j].cwd>>

C2_Witness ==
    /\ cls = "Subclass"
    /\ pc = "failed"
    /\ err = "hook failed"
    /\ calls = <<Ev("call", "pre_task", args), Ev("raise", "pre_task", args)>>

\* The shell operations of a complete Package Build, given the state of the
\* library directory.
PackageBuildCommands ==
    LET rm == [cmd |-> "rm -rf " \o attrs.zip_file, cwd |-> "/project"]
        zip == "zip -r9 " \o attrs.zip_file \o " * -x@" \o attrs.exclude_file
    IN  <<rm, [cmd |-> zip, cwd |-> "/project"]>>
        \o (IF libdir = "nonempty" THEN <<[cmd |-> zip, cwd |-> "/project/lib"]>> ELSE <<>>)

\* C3: Package Build issues: remove the archive, archive the base tree, and
\* archive the library directory only when it exists and is not empty.  What
\* it has issued is always a prefix of that list, and a run_main that
\* returned has issued all of it: one archive operation when the library
\* directory is absent or empty, two otherwise, the removal first.
C3_PackageBuildOrder ==
    cls = "MakeZipTask" =>
        /\ Len(shell) <= Len(PackageBuildCommands)
        /\ \A i \in 1..Len(shell) :
             /\ shell[i].cmd = PackageBuildCommands[i].cmd
             /\ shell[i].cwd = PackageBuildCommands[i].cwd
        /\ pc \in {"post_task", "done"} =>
             /\ Len(shell) = Len(PackageBuildCommands)
             /\ Len(shell) = (IF libdir \in {"absent", "empty"} THEN 2 ELSE 3)
             /\ err = ""

C3_Witness ==
    /\ cls = "MakeZipTask"
    /\ pc = "done"
    /\ libdir = "nonempty"
    /\ Len(shell) = 3
    /\ shell[3].cwd = "/project/lib"

\* C4: when the library directory exists and is not empty, a finished Package
\* Build has put the base tree and the library directory into one and the same
\* archive file.
C4_SameArchive ==
    (cls = "MakeZipTask" /\ pc = "done" /\ libdir = "nonempty") =>
        \E f \in DOMAIN files : {"base", "lib"} \subseteq files[f]

\* C5: a remote task constructed without a function name fails in the
\* constructor with the configuration error: no instance exists, its option
\* mapping was never built, nothing was composed or executed; so every remote
\* task instance has a function name.
C5_FunctionNameRequired ==
    /\ (ctor # EmptyDict /\ "function_name" \in DOMAIN ctor /\ ctor.function_name = None) =>
         /\ pc = "init_failed"
         /\ err = "Function Name Required"
         /\ cls = ""
         /\ options = EmptyDict
         /\ shell = <<>>
         /\ runs = 0
    /\ cls \in RemoteClasses => options.function_name # None

C5_Witness ==
    /\ pc = "init_failed"
    /\ ctor.function_name = None
    /\ ctor.qualifier = "PROD"
    /\ err = "Function Name Required"

\* C6: Local Invocation runs its command with PYTHONPATH overridden by the
\* library path, and the override is gone once invoke has returned or raised.
C6_ScopedOverride ==
    /\ pc \notin {"invoke_local", "invoke_exit"} => "PYTHONPATH" \notin DOMAIN shell_env
    /\ cls = "InvokeTask" =>
         \A i \in 1..Len(shell) :
             /\ "PYTHONPATH" \in DOMAIN shell[i].env
             /\ shell[i].env["PYTHONPATH"] = "./lib"

C6_Witness ==
    /\ cls = "InvokeTask"
    /\ pc = "failed"
    /\ Len(shell) = 1
    /\ ~shell[1].ok
    /\ shell[1].env["PYTHONPATH"] = "./lib"
    /\ shell_env = EmptyDict

\* The qualifier part of a command line, for a constructor argument q.
QualifierText(q) == IF q = None \/ q = "" THEN "" ELSE " --qualifier " \o q

\* C7: the commands of Remote Config Fetch and Remote Invocation hold
\* "--qualifier <value>" when the constructor was given a (non-empty)
\* qualifier and no such fragment otherwise; in Remote Invocation it stands
\* after "--payload <payload>" and before the output file, which is last.
C7_QualifierFragment ==
    /\ cls = "AWSLambdaGetConfigTask" =>
         \A i \in 1..Len(shell) :
             shell[i].cmd = "aws lambda get-function-configuration --function-name "
                            \o options.function_name \o QualifierText(ctor.qualifier)
    /\ cls = "AWSLambdaInvokeTask" =>
         \A i \in 1..Len(shell) :
             shell[i].cmd = "aws lambda invoke --function-name " \o options.function_name
                            \o " --invocation-type RequestResponse --log-type Tail"
                            \o " --payload file://event.json"
                            \o QualifierText(ctor.qualifier)
                            \o " /tmp/outfile.txt"

C7_Witness ==
    /\ cls = "AWSLambdaInvokeTask"
    /\ ctor.qualifier = "PROD"
    /\ Len(shell) = 1
    /\ shell[1].cmd = "aws lambda invoke --function-name my-function --invocation-type RequestResponse --log-type Tail --payload file://event.json --qualifier PROD /tmp/outfile.txt"

\* Remote Invocation has dealt with the captured text.
LogHandled ==
    cls = "AWSLambdaInvokeTask" /\ result # <<>> /\ pc \in {"print_result", "post_task", "done", "failed"}

PrintedLog(bytes) == [kind |-> "log", bytes |-> bytes]
PrintedResult == [kind |-> "RESULT", file |-> "/tmp/outfile.txt"]

\* C8: Remote Invocation prints the base64 decoding of the LogResult field of
\* the captured JSON object (hello for the base64 of hello), prints an empty
\* log when the object has no LogResult field, and in both cases goes on to
\* read and print the output file; when the captured text is not JSON the
\* parse error leaves run and the output file is not read.
C8_LogDecoding ==
    LogHandled =>
        /\ result = TextHello => pc # "failed" /\ out[1] = PrintedLog(HelloBytes)
        /\ result = TextStatusAndHi => pc # "failed" /\ out[1] = PrintedLog(HiBytes)
        /\ result \in {TextEmptyObject, TextStatusOnly} => pc # "failed" /\ out[1] = PrintedLog(<<>>)
        /\ result \in {TextHello, TextStatusAndHi, TextEmptyObject, TextStatusOnly} =>
             /\ pc = "print_result" => Len(out) = 1
             /\ pc \in {"post_task", "done"} => Len(out) = 2 /\ out[2] = PrintedResult
        /\ result \in {TextNotJson, TextTruncated} =>
             /\ pc = "failed"
             /\ err = "ValueError"
             /\ out = <<>>

C8_Witness ==
    /\ LogHandled
    /\ pc = "done"
    /\ result = TextHello
    /\ out = <<PrintedLog(HelloBytes), PrintedResult>>

\* The names a template refers to.
Referenced(name) ==
    CASE name = "install_python_modules" -> {"requirements", "lib_path"}
      [] name = "invoke" -> {"timeout", "lib_path", "lambda_handler", "lambda_file", "event_file"}
      [] name = "remove_zip_file" -> {"0"}
      [] name = "makezip" -> {"zip_file", "exclude_file"}
      [] name = "get_function_config" -> {"function_name"}
      [] name = "aws_invoke" ->
            {"function_name", "invocation_type", "log_type", "payload", "outfile"}
      [] name = "update_function_code" -> {"function_name", "zip_file"}

\* The command line of each template, written out for a complete mapping o.
CommandLine(name, o) ==
    CASE name = "install_python_modules" ->
            "pip install --upgrade -r " \o o.requirements \o " -t " \o o.lib_path
      [] name = "invoke" ->
            "python-lambda-local -t 3 -l " \o o.lib_path \o " -f " \o o.lambda_handler
            \o " " \o o.lambda_file \o " " \o o.event_file
      [] name = "remove_zip_file" -> "rm -rf " \o o["0"]
      [] name = "makezip" -> "zip -r9 " \o o.zip_file \o " * -x@" \o o.exclude_file
      [] name = "get_function_config" ->
            "aws lambda get-function-configuration --function-name " \o o.function_name
            \o (IF "qualifier" \in DOMAIN o THEN " --qualifier " \o o.qualifier ELSE "")
      [] name = "aws_invoke" ->
            "aws lambda invoke --function-name " \o o.function_name
            \o " --invocation-type " \o o.invocation_type \o " --log-type " \o o.log_type
            \o " --payload " \o o.payload
            \o (IF "qualifier" \in DOMAIN o THEN " --qualifier " \o o.qualifier ELSE "")
            \o " " \o o.outfile
      [] name = "update_function_code" ->
            "aws lambda update-function-code --function-name " \o o.function_name
            \o " --zip-file " \o o.zip_file

\* C9: composing a template with a mapping that has every name it refers to
\* gives the fragments joined by single spaces with each placeholder replaced
\* by its value, and that text is what local gets; composing with a name
\* missing raises the KeyError and local is not called.
C9_Composition ==
    pc = "composed" =>
        IF Referenced(attrs.template) \subseteq DOMAIN options
        THEN /\ Len(shell) = 1
             /\ shell[1].cmd = CommandLine(attrs.template, options)
             /\ err # "KeyError"
        ELSE /\ shell = <<>>
             /\ err = "KeyError"

C9_Witness ==
    /\ pc = "composed"
    /\ attrs.template = "invoke"
    /\ DOMAIN options = {"lambda_handler", "lambda_file", "lib_path", "timeout"}
    /\ err = "KeyError"
    /\ shell = <<>>


\* The option an argument of run overrides, by class.
OverrideKey == IF cls = "InvokeTask" THEN "event_file" ELSE "function_name"

\* The step of run_main that stores the override.
AtOverride ==
    \/ cls = "InvokeTask" /\ pc = "invoke"
    \/ cls = "AWSLambdaGetConfigTask" /\ pc = "get_function_config"
    \/ cls = "AWSLambdaInvokeTask" /\ pc = "aws_invoke"
    \/ cls = "AWSLambdaUpdateCodeTask" /\ pc = "run_main"

\* C10: an override given to a call replaces its option and no other; it
\* stays in the option mapping of the instance, so that every later command
\* is composed with it; a call without override (None) leaves the mapping as
\* it is.  Once an instance exists, each step leaves the mapping alone unless
\* it is the override step of a call with an argument other than None, which
\* changes that one entry to the argument; and each command issued carries
\* the entry's value of that moment.
C10_OverridePersists ==
    [][ (cls \in RemoteClasses \cup {"InvokeTask"}) =>
          /\ DOMAIN options' = DOMAIN options
          /\ \A k \in DOMAIN options : k # OverrideKey => options'[k] = options[k]
          /\ options'[OverrideKey] =
                IF AtOverride /\ args # <<>> /\ args[1] # None THEN args[1]
                ELSE options[OverrideKey]
          /\ (cls = "AWSLambdaUpdateCodeTask" /\ Len(shell') = 1) =>
                shell'[1].cmd = "aws lambda update-function-code --function-name "
                                \o options'.function_name
                                \o " --zip-file fileb://lambda_function.zip"
          /\ (cls = "AWSLambdaGetConfigTask" /\ Len(shell') = 1) =>
                shell'[1].cmd = "aws lambda get-function-configuration --function-name "
                                \o options'.function_name \o QualifierText(ctor.qualifier)
          /\ (cls = "AWSLambdaInvokeTask" /\ Len(shell') = 1) =>
                shell'[1].cmd = "aws lambda invoke --function-name " \o options'.function_name
                                \o " --invocation-type RequestResponse --log-type Tail"
                                \o " --payload file://event.json"
                                \o QualifierText(ctor.qualifier) \o " /tmp/outfile.txt"
          /\ (cls = "InvokeTask" /\ Len(shell') = 1) =>
                shell'[1].cmd = "python-lambda-local -t 3 -l ./lib -f lambda_handler lambda_function.py "
                                \o options'.event_file
      ]_vars

C10_Witness ==
    /\ cls = "AWSLambdaUpdateCodeTask"
    /\ runs = 2
    /\ args \in {<<>>, <<None>>}
    /\ ctor.function_name = "my-function"
    /\ options.function_name = "alt"
    /\ Len(shell) = 1
    /\ shell[1].cmd = "aws lambda update-function-code --function-name alt --zip-file fileb://lambda_function.zip"

====
